---- MODULE Spec2Model ----
(***************************************************************************)
(* Child-list management of a scene-graph Container                        *)
(* (src/rendering/scene/container-mixins/childrenHelperMixin.ts).          *)
(*                                                                         *)
(* Every node owns an ordered children array and a parent back-reference.  *)
(* One action models one complete call of a mixin method, from validation  *)
(* to the last emitted event.  Arrays are sequences; JavaScript indices    *)
(* are 0-based, so element i of an array is s[i + 1].                      *)
(***************************************************************************)
EXTENDS Integers, Sequences, FiniteSets, TLC

\* Number of Container objects that exist: a parent and three children.
NumNodes == 4

\* Longest call history explored from the freshly constructed nodes: three
\* insertions and a call on the three children, or two insertions, an update
\* pass and a call on children whose flags are cleared.
MaxCalls == 4

Node == 1..NumNodes

\* `child.parent = null`
null == 0

\* `index === -1`: Array.prototype.indexOf found nothing.
NotFound == -1

\* `child.updateFlags = 0b1111`
AllFlags == 15

VARIABLES
    children,       \* children[n]: the array n.children
    parent,         \* parent[n]: n.parent, a node or null
    didChange,      \* didChange[n]
    didViewUpdate,  \* didViewUpdate[n]
    updateFlags,    \* updateFlags[n]
    sortDirty,      \* sortDirty[n]
    sortChildren,   \* sortChildren[n]: n.sortChildren is truthy
    hasLayerGroup,  \* hasLayerGroup[n]: n.layerGroup is truthy
    layerGroup,     \* layerGroup[n]: the nodes held by n.layerGroup
    events,         \* the events emitted by the last call, in order
    last,           \* the last call: method, arguments, outcome
    pre,            \* the scene as it was when the last call began
    seen,           \* seen[k]: the scene at the instant events[k] was emitted
    calls           \* number of calls made so far

scene == <<children, parent, didChange, didViewUpdate, updateFlags, sortDirty, layerGroup>>
config == <<sortChildren, hasLayerGroup>>
vars == <<children, parent, didChange, didViewUpdate, updateFlags, sortDirty,
          sortChildren, hasLayerGroup, layerGroup, events, last, pre, seen, calls>>

-----------------------------------------------------------------------------
(* Arrays *)

\* Faulty variant: the search starts at the second element.
IndexOfFromSecond(s, x) ==
    IF \E k \in 2..Len(s) : s[k] = x
    THEN (CHOOSE k \in 2..Len(s) : s[k] = x /\ \A j \in 2..(k - 1) : s[j] # x) - 1
    ELSE NotFound

\* Array.prototype.indexOf: first 0-based position of x, or -1.
IndexOf(s, x) ==
    IF \E k \in 1..Len(s) : s[k] = x
    THEN (CHOOSE k \in 1..Len(s) : s[k] = x /\ \A j \in 1..(k - 1) : s[j] # x) - 1
    ELSE NotFound

\* arr.splice(i, 1) for 0 <= i < length.
SpliceOut(s, i) ==
    [k \in 1..(Len(s) - 1) |-> IF k <= i THEN s[k] ELSE s[k + 1]]

\* arr.splice(start, 0, x): start beyond the length is clamped to the length,
\* a negative start counts from the end.
SpliceIn(s, start, x) ==
    LET n  == Len(s)
        at == IF start < 0 THEN (IF n + start < 0 THEN 0 ELSE n + start)
              ELSE IF start > n THEN n ELSE start
    IN  [k \in 1..(n + 1) |-> IF k <= at THEN s[k] ELSE IF k = at + 1 THEN x ELSE s[k - 1]]

\* arr.push(x)
Push(s, x) == Append(s, x)

\* The bulk splice of removeChildren: drops the elements at the 0-based
\* positions startIdx .. endIdx-1 that exist and closes the gap.
removeItems(s, startIdx, endIdx) ==
    LET keep == {k \in 1..Len(s) : k - 1 < startIdx \/ k - 1 >= endIdx}
        Nth(j) == CHOOSE k \in keep : Cardinality({m \in keep : m < k}) = j - 1
    IN  [j \in 1..Cardinality(keep) |-> s[Nth(j)]]

Elems(s) == {s[k] : k \in 1..Len(s)}

-----------------------------------------------------------------------------
(* Events, scenes and call results *)

NoArg == <<>>

\* this.emit('childAdded' | 'childRemoved', child, this, index)
ParentEvent(type, this, child, index) ==
    [type |-> type, on |-> this, args |-> <<child, this, index>>]

\* child.emit('added' | 'removed', this)
ChildEvent(type, child, this) ==
    [type |-> type, on |-> child, args |-> <<this>>]

\* The mutable fields of all nodes, as one value.
Snapshot ==
    [children |-> children, parent |-> parent, didChange |-> didChange,
     didViewUpdate |-> didViewUpdate, updateFlags |-> updateFlags,
     sortDirty |-> sortDirty, layerGroup |-> layerGroup]

\* What a call leaves behind: the scene, the events it emitted, the error it
\* threw ("none" when it returned) and the value it returned.
Result(S, ev, threw, ret) ==
    [scene |-> S, events |-> ev, seen |-> <<>>, threw |-> threw, ret |-> ret]
Return(S, ev, ret) == Result(S, ev, "none", ret)
Throw(S, ev, kind) == Result(S, ev, kind, <<>>)

\* A call in progress: the scene as written so far and what was emitted so far.
Begin(S) == [scene |-> S, events |-> <<>>, seen |-> <<>>]

\* Consecutive emit() calls with no write between them: every listener runs
\* on the scene as it is at that point of the method.
EmitAll(X, evs) ==
    [X EXCEPT !.events = @ \o evs,
              !.seen = @ \o [k \in 1..Len(evs) |-> X.scene]]

\* `return` after the emissions.
ReturnAfter(X, ret) ==
    [scene |-> X.scene, events |-> X.events, seen |-> X.seen, threw |-> "none", ret |-> ret]

-----------------------------------------------------------------------------
(* getChildAt, getChildIndex *)

\* `index < 0 || index >= this.children.length`
getChildAtOutOfBounds(index, length) == index < 0 \/ index >= length

getChildAt(S, this, index) ==
    IF getChildAtOutOfBounds(index, Len(S.children[this]))
    THEN Throw(S, <<>>, "Error")
    ELSE Return(S, <<>>, <<S.children[this][index + 1]>>)

getChildIndex(S, this, child) ==
    LET index == IndexOf(S.children[this], child)
    IN  IF index = NotFound
        THEN Throw(S, <<>>, "Error")
        ELSE Return(S, <<>>, <<index>>)

-----------------------------------------------------------------------------
(* addChildAt *)

\* `index < 0 || index > children.length`
addChildAtOutOfBounds(index, length) == index < 0 \/ index > length

\* Faulty variant: the early return for an unchanged position is missing.
samePositionNever(childParent, this, currentIndex, index) == FALSE

\* `child.parent === this && currentIndex === index`
samePosition(childParent, this, currentIndex, index) ==
    childParent = this /\ currentIndex = index

\* Faulty variant: the child is left in the array of its previous parent.
detachSkipped(chn, childParent, currentIndex) == chn

\* `if (currentIndex !== -1) child.parent.children.splice(currentIndex, 1)`
detach(chn, childParent, currentIndex) ==
    IF currentIndex # NotFound
    THEN [chn EXCEPT ![childParent] = SpliceOut(@, currentIndex)]
    ELSE chn

\* Faulty variant: below the end, the child overwrites the slot at index.
insertOverwriting(s, index, child) ==
    IF index = Len(s) THEN Push(s, child) ELSE [s EXCEPT ![index + 1] = child]

\* `if (index === children.length) children.push(child)
\*  else children.splice(index, 0, child)`
insert(s, index, child) ==
    IF index = Len(s) THEN Push(s, child) ELSE SpliceIn(s, index, child)

\* Faulty variant: the back-reference is not written.
adoptWithoutParent(S, this, child) ==
    [S EXCEPT !.didChange[child] = TRUE,
              !.didViewUpdate[child] = FALSE,
              !.updateFlags[child] = AllFlags]

\* Faulty variant: the dirty flags are not touched.
adoptParentOnly(S, this, child) == [S EXCEPT !.parent[child] = this]

\* `child.parent = this` and the three flag assignments.
adopt(S, this, child) ==
    [S EXCEPT !.parent[child] = this,
              !.didChange[child] = TRUE,
              !.didViewUpdate[child] = FALSE,
              !.updateFlags[child] = AllFlags]

\* Faulty variant: receiver and argument are exchanged, so the entry is made
\* in the child's slot of the index.
layerAddToChild(S, this, child) ==
    IF hasLayerGroup[this]
    THEN [S EXCEPT !.layerGroup[child] = @ \cup {this}]
    ELSE S

\* `if (this.layerGroup) this.layerGroup.addChild(child)`
layerAdd(S, this, child) ==
    IF hasLayerGroup[this]
    THEN [S EXCEPT !.layerGroup[this] = @ \cup {child}]
    ELSE S

\* `if (this.sortChildren) this.sortDirty = true`
markSort(S, this) ==
    IF sortChildren[this] THEN [S EXCEPT !.sortDirty[this] = TRUE] ELSE S

\* Faulty variant: the child is notified before the parent.
addedEventsChildFirst(this, child, index) ==
    <<ChildEvent("added", child, this), ParentEvent("childAdded", this, child, index)>>

\* `this.emit('childAdded', child, this, index); child.emit('added', this)`
addedEvents(this, child, index) ==
    <<ParentEvent("childAdded", this, child, index), ChildEvent("added", child, this)>>

\* Faulty variant: the two events are emitted right after the array is
\* written, before the back-reference and the flags.
addChildAtNotifyFirst(S, this, child, index) ==
    IF addChildAtOutOfBounds(index, Len(S.children[this]))
    THEN Throw(S, <<>>, "Error")
    ELSE
      LET childParent  == S.parent[child]
          currentIndex == IF childParent # null
                          THEN IndexOf(S.children[childParent], child)
                          ELSE NotFound
      IN  IF childParent # null /\ samePosition(childParent, this, currentIndex, index)
          THEN Return(S, <<>>, <<child>>)
          ELSE
            LET c1 == IF childParent # null
                      THEN detach(S.children, childParent, currentIndex)
                      ELSE S.children
                c2 == [c1 EXCEPT ![this] = insert(@, index, child)]
                S2 == [S EXCEPT !.children = c2]
                X  == EmitAll(Begin(S2), addedEvents(this, child, index))
                S3 == markSort(layerAdd(adopt(S2, this, child), this, child), this)
            IN  ReturnAfter([X EXCEPT !.scene = S3], <<child>>)

addChildAt(S, this, child, index) ==
    IF addChildAtOutOfBounds(index, Len(S.children[this]))
    THEN Throw(S, <<>>, "Error")
    ELSE
      LET childParent  == S.parent[child]
          currentIndex == IF childParent # null
                          THEN IndexOf(S.children[childParent], child)
                          ELSE NotFound
      IN  IF childParent # null /\ samePosition(childParent, this, currentIndex, index)
          THEN Return(S, <<>>, <<child>>)
          ELSE
            LET c1 == IF childParent # null
                      THEN detach(S.children, childParent, currentIndex)
                      ELSE S.children
                c2 == [c1 EXCEPT ![this] = insert(@, index, child)]
                S2 == [S EXCEPT !.children = c2]
                S3 == markSort(layerAdd(adopt(S2, this, child), this, child), this)
            IN  ReturnAfter(EmitAll(Begin(S3), addedEvents(this, child, index)), <<child>>)

-----------------------------------------------------------------------------
(* setChildIndex *)

\* Faulty variant: the length itself passes as an index.
setChildIndexOutOfBoundsLax(index, length) == index < 0 \/ index > length

\* `index < 0 || index >= this.children.length`
setChildIndexOutOfBounds(index, length) == index < 0 \/ index >= length

\* Faulty variant: the child trades places with the occupant of index.
setChildIndexByExchange(S, this, child, index) ==
    IF setChildIndexOutOfBounds(index, Len(S.children[this]))
    THEN Throw(S, <<>>, "Error")
    ELSE IF getChildIndex(S, this, child).threw # "none"
    THEN Throw(S, <<>>, "Error")
    ELSE LET r == addChildAt(S, this, child, index)
             s == S.children[this]
             t == [[s EXCEPT ![IndexOf(s, child) + 1] = s[index + 1]]
                      EXCEPT ![index + 1] = child]
         IN  IF r.threw # "none" THEN r
             ELSE [r EXCEPT !.ret = <<>>, !.scene.children[this] = t]

\* Faulty variant: the child is moved but its dirty flags are left as they were.
setChildIndexKeepingFlags(S, this, child, index) ==
    IF setChildIndexOutOfBounds(index, Len(S.children[this]))
    THEN Throw(S, <<>>, "Error")
    ELSE IF getChildIndex(S, this, child).threw # "none"
    THEN Throw(S, <<>>, "Error")
    ELSE LET r == addChildAt(S, this, child, index)
         IN  IF r.threw # "none" THEN r
             ELSE [r EXCEPT !.ret = <<>>,
                            !.scene.didChange = S.didChange,
                            !.scene.didViewUpdate = S.didViewUpdate,
                            !.scene.updateFlags = S.updateFlags]

setChildIndex(S, this, child, index) ==
    IF setChildIndexOutOfBounds(index, Len(S.children[this]))
    THEN Throw(S, <<>>, "Error")
    ELSE IF getChildIndex(S, this, child).threw # "none"
    THEN Throw(S, <<>>, "Error")
    ELSE LET r == addChildAt(S, this, child, index)
         IN  IF r.threw # "none" THEN r ELSE [r EXCEPT !.ret = <<>>]

-----------------------------------------------------------------------------
(* swapChildren *)

\* Faulty variant: only the first of the two slots is written.
exchangeFirstOnly(s, index1, index2, child, child2) ==
    [s EXCEPT ![index1 + 1] = child2]

\* Faulty variant: the first child is taken out and put back at the second
\* child's position, shifting the children in between.
exchangeByRelocation(s, index1, index2, child, child2) ==
    SpliceIn(SpliceOut(s, index1), index2, child)

\* `this.children[index1] = child2; this.children[index2] = child`
exchange(s, index1, index2, child, child2) ==
    [[s EXCEPT ![index1 + 1] = child2] EXCEPT ![index2 + 1] = child]

\* Faulty variant: the first slot is written before the second child is looked up.
swapChildrenLateCheck(S, this, child, child2) ==
    IF child = child2
    THEN Return(S, <<>>, <<>>)
    ELSE
      LET r1 == getChildIndex(S, this, child)
          r2 == getChildIndex(S, this, child2)
          S1 == [S EXCEPT !.children[this][r1.ret[1] + 1] = child2]
      IN  IF r1.threw # "none" THEN Throw(S, <<>>, "Error")
          ELSE IF r2.threw # "none" THEN Throw(S1, <<>>, "Error")
          ELSE Return([S EXCEPT !.children[this] = exchange(@, r1.ret[1], r2.ret[1], child, child2)],
                      <<>>, <<>>)

swapChildren(S, this, child, child2) ==
    IF child = child2
    THEN Return(S, <<>>, <<>>)
    ELSE
      LET r1 == getChildIndex(S, this, child)
          r2 == getChildIndex(S, this, child2)
      IN  IF r1.threw # "none" THEN Throw(S, <<>>, "Error")
          ELSE IF r2.threw # "none" THEN Throw(S, <<>>, "Error")
          ELSE Return([S EXCEPT !.children[this] = exchange(@, r1.ret[1], r2.ret[1], child, child2)],
                      <<>>, <<>>)

-----------------------------------------------------------------------------
(* removeChildren *)

\* Faulty variant: an omitted end stops one short of the last child.
endOrLengthShort(endArg, length) == IF endArg = NoArg THEN length - 1 ELSE endArg[1]

\* `beginIndex = 0` (default parameter) and `endIndex ?? this.children.length`
beginOrDefault(beginArg) == IF beginArg = NoArg THEN 0 ELSE beginArg[1]
endOrLength(endArg, length) == IF endArg = NoArg THEN length ELSE endArg[1]

\* `range > 0 && range <= end`
rangeAccepted(range, end) == range > 0 /\ range <= end

\* Faulty variant: an empty range is accepted whatever the array holds.
emptyNoopAnyLength(range, length) == range = 0

\* `range === 0 && this.children.length === 0`
emptyNoop(range, length) == range = 0 /\ length = 0

\* `this.layerGroup.removeChild(child)` under `if (this.layerGroup)`
layerRemove(S, this, child) ==
    IF hasLayerGroup[this]
    THEN [S EXCEPT !.layerGroup[this] = @ \ {child}]
    ELSE S

\* Faulty variant: the removed child keeps its back-reference.
releaseKeepingParent(acc, this, child) ==
    [removed |-> Append(acc.removed, child),
     scene   |-> layerRemove(acc.scene, this, child)]

\* Faulty variant: the removed child is put at the front of the list.
releaseUnshift(acc, this, child) ==
    [removed |-> <<child>> \o acc.removed,
     scene   |-> [layerRemove(acc.scene, this, child) EXCEPT !.parent[child] = null]]

\* `removed.push(child); child.parent = null`
release(acc, this, child) ==
    [removed |-> Append(acc.removed, child),
     scene   |-> [layerRemove(acc.scene, this, child) EXCEPT !.parent[child] = null]]

\* `for (let i = end - 1; i >= beginIndex; i--)`, with `if (!child) continue`
RECURSIVE detachLoop(_, _, _, _)
detachLoop(this, i, beginIndex, acc) ==
    IF i < beginIndex THEN acc
    ELSE LET s == acc.scene.children[this]
         IN  IF i < 0 \/ i >= Len(s)
             THEN detachLoop(this, i - 1, beginIndex, acc)
             ELSE detachLoop(this, i - 1, beginIndex, release(acc, this, s[i + 1]))

\* Faulty variant: the position passed counts from the low end of the range,
\* as the original order of the children does.
removedEventsOriginalOrder(this, removed) ==
    [k \in 1..(2 * Len(removed)) |->
        IF k % 2 = 1
        THEN ParentEvent("childRemoved", this, removed[(k + 1) \div 2],
                         Len(removed) - 1 - ((k - 1) \div 2))
        ELSE ChildEvent("removed", removed[k \div 2], this)]

\* `for (let i = 0; i < removed.length; ++i)`: childRemoved, then removed.
removedEvents(this, removed) ==
    [k \in 1..(2 * Len(removed)) |->
        IF k % 2 = 1
        THEN ParentEvent("childRemoved", this, removed[(k + 1) \div 2], (k - 1) \div 2)
        ELSE ChildEvent("removed", removed[k \div 2], this)]

removeChildren(S, this, beginArg, endArg) ==
    LET beginIndex == beginOrDefault(beginArg)
        end        == endOrLength(endArg, Len(S.children[this]))
        range      == end - beginIndex
    IN  IF rangeAccepted(range, end)
        THEN LET acc == detachLoop(this, end - 1, beginIndex, [removed |-> <<>>, scene |-> S])
                 S2  == [acc.scene EXCEPT !.children[this] = removeItems(@, beginIndex, end)]
             IN  ReturnAfter(EmitAll(Begin(S2), removedEvents(this, acc.removed)), acc.removed)
        ELSE IF emptyNoop(range, Len(S.children[this]))
        THEN Return(S, <<>>, <<>>)
        ELSE Throw(S, <<>>, "RangeError")

-----------------------------------------------------------------------------
(* removeChildAt; removeChild is the variadic collaborator, called with one child *)

removeChild(S, this, child) ==
    LET index == IndexOf(S.children[this], child)
    IN  IF index = NotFound
        THEN Return(S, <<>>, <<child>>)
        ELSE LET S1 == [S EXCEPT !.children[this] = SpliceOut(@, index)]
                 S2 == [layerRemove(S1, this, child) EXCEPT !.parent[child] = null]
             IN  ReturnAfter(EmitAll(Begin(S2),
                                     <<ParentEvent("childRemoved", this, child, index),
                                       ChildEvent("removed", child, this)>>), <<child>>)

removeChildAt(S, this, index) ==
    LET r == getChildAt(S, this, index)
    IN  IF r.threw # "none" THEN r ELSE removeChild(S, this, r.ret[1])

\* `this.parent?.removeChild(this)`: nothing happens without a parent; the
\* method has no return value.
removeFromParent(S, this) ==
    IF S.parent[this] = null
    THEN Return(S, <<>>, <<>>)
    ELSE [removeChild(S, S.parent[this], this) EXCEPT !.ret = <<>>]

-----------------------------------------------------------------------------
(* The state machine: one action per call *)

Args(child, child2, index, beginArg, endArg) ==
    [child |-> child, child2 |-> child2, index |-> index, begin |-> beginArg, end |-> endArg]

\* Installs the outcome of a call and records the call itself.
Commit(op, this, args, r) ==
    /\ children' = r.scene.children
    /\ parent' = r.scene.parent
    /\ didChange' = r.scene.didChange
    /\ didViewUpdate' = r.scene.didViewUpdate
    /\ updateFlags' = r.scene.updateFlags
    /\ sortDirty' = r.scene.sortDirty
    /\ layerGroup' = r.scene.layerGroup
    /\ events' = r.events
    /\ seen' = r.seen
    /\ last' = [op |-> op, this |-> this, args |-> args, threw |-> r.threw, ret |-> r.ret]
    /\ pre' = Snapshot
    /\ calls' = calls + 1
    /\ UNCHANGED config

\* The indices a caller may pass: everything from one below to one above the
\* positions of the array.
Indices(this) == (-1)..(Len(children[this]) + 1)
OptIndices(this) == {NoArg} \cup {<<i>> : i \in Indices(this)}
OptEnds(this) == OptIndices(this) \cup {<<Len(children[this]) + 2>>}

AddChildAt(this, child, index) ==
    /\ calls < MaxCalls
    /\ Commit("addChildAt", this, Args(child, null, index, NoArg, NoArg),
              addChildAt(Snapshot, this, child, index))

SetChildIndex(this, child, index) ==
    /\ calls < MaxCalls
    /\ Commit("setChildIndex", this, Args(child, null, index, NoArg, NoArg),
              setChildIndex(Snapshot, this, child, index))

SwapChildren(this, child, child2) ==
    /\ calls < MaxCalls
    /\ Commit("swapChildren", this, Args(child, child2, 0, NoArg, NoArg),
              swapChildren(Snapshot, this, child, child2))

RemoveChildren(this, beginArg, endArg) ==
    /\ calls < MaxCalls
    /\ Commit("removeChildren", this, Args(null, null, 0, beginArg, endArg),
              removeChildren(Snapshot, this, beginArg, endArg))

GetChildAt(this, index) ==
    /\ calls < MaxCalls
    /\ Commit("getChildAt", this, Args(null, null, index, NoArg, NoArg),
              getChildAt(Snapshot, this, index))

GetChildIndex(this, child) ==
    /\ calls < MaxCalls
    /\ Commit("getChildIndex", this, Args(child, null, 0, NoArg, NoArg),
              getChildIndex(Snapshot, this, child))

RemoveChildAt(this, index) ==
    /\ calls < MaxCalls
    /\ Commit("removeChildAt", this, Args(null, null, index, NoArg, NoArg),
              removeChildAt(Snapshot, this, index))

RemoveFromParent(this) ==
    /\ calls < MaxCalls
    /\ Commit("removeFromParent", this, Args(null, null, 0, NoArg, NoArg),
              removeFromParent(Snapshot, this))

\* A downstream update pass consumes the dirty flags of a node.
UpdatePass(n) ==
    /\ calls < MaxCalls
    /\ didChange[n]
    /\ didChange' = [didChange EXCEPT ![n] = FALSE]
    /\ didViewUpdate' = [didViewUpdate EXCEPT ![n] = TRUE]
    /\ updateFlags' = [updateFlags EXCEPT ![n] = 0]
    /\ sortDirty' = [sortDirty EXCEPT ![n] = FALSE]
    /\ events' = <<>>
    /\ seen' = <<>>
    /\ last' = [op |-> "updatePass", this |-> n, args |-> Args(null, null, 0, NoArg, NoArg),
                threw |-> "none", ret |-> <<>>]
    /\ pre' = Snapshot
    /\ calls' = calls + 1
    /\ UNCHANGED <<children, parent, layerGroup, config>>

Init ==
    /\ children = [n \in Node |-> <<>>]
    /\ parent = [n \in Node |-> null]
    /\ didChange = [n \in Node |-> FALSE]
    /\ didViewUpdate = [n \in Node |-> TRUE]
    /\ updateFlags = [n \in Node |-> 0]
    /\ sortDirty = [n \in Node |-> FALSE]
    /\ sortChildren = [n \in Node |-> n = 1]
    /\ hasLayerGroup = [n \in Node |-> n = 1]
    /\ layerGroup = [n \in Node |-> {}]
    /\ events = <<>>
    /\ seen = <<>>
    /\ last = [op |-> "new", this |-> null, args |-> Args(null, null, 0, NoArg, NoArg),
               threw |-> "none", ret |-> <<>>]
    /\ pre = Snapshot
    /\ calls = 0

\* The four mutators of the child list, with any arguments.
Next ==
    \/ \E this \in Node, child \in Node : \E index \in Indices(this) :
          AddChildAt(this, child, index)
    \/ \E this \in Node, child \in Node : \E index \in Indices(this) :
          SetChildIndex(this, child, index)
    \/ \E this \in Node, child \in Node, child2 \in Node :
          SwapChildren(this, child, child2)
    \/ \E this \in Node : \E beginArg \in OptIndices(this), endArg \in OptEnds(this) :
          RemoveChildren(this, beginArg, endArg)
    \/ \E n \in Node : UpdatePass(n)

Spec == Init /\ [][Next]_vars

\* All methods of the mixin that take part in the error contract.
NextAll ==
    \/ Next
    \/ \E this \in Node : \E index \in Indices(this) : GetChildAt(this, index)
    \/ \E this \in Node, child \in Node : GetChildIndex(this, child)
    \/ \E this \in Node : \E index \in Indices(this) : RemoveChildAt(this, index)
    \/ \E this \in Node : RemoveFromParent(this)

SpecAll == Init /\ [][NextAll]_vars

-----------------------------------------------------------------------------
(* Properties *)

IsChildOf(S, n, P) == n \in Elems(S.children[P])

\* The last call, by method and outcome.
Did(op) == last.op = op
Succeeded(op) == last.op = op /\ last.threw = "none"
Failed == last.threw # "none"

\* C1 (invariant I2): in every state reached from detached nodes by any
\* sequence of addChildAt, setChildIndex, swapChildren and removeChildren
\* calls, failing ones included, n.parent is P exactly when n is an element
\* of P.children.
ParentIffChild ==
    \A n \in Node, P \in Node : (parent[n] = P) <=> IsChildOf(Snapshot, n, P)

\* A removal that took some children away from a parent and left others.
ParentIffChildWitness ==
    /\ Succeeded("removeChildren")
    /\ Len(last.ret) > 0
    /\ \E n \in Node : parent[n] = last.this
    /\ \E n \in Node : pre.parent[n] = last.this /\ parent[n] = null

\* C2 (invariant I1, single parent): in every reachable state each node is
\* an element of the children array of at most one node.
SingleParent ==
    \A n \in Node : Cardinality({P \in Node : IsChildOf(Snapshot, n, P)}) <= 1

\* A child was moved from one parent to a different one.
SingleParentWitness ==
    /\ Succeeded("addChildAt")
    /\ pre.parent[last.args.child] \notin {null, last.this}
    /\ IsChildOf(Snapshot, last.args.child, last.this)

\* C3: after P.addChildAt(c, i) returns, for c detached, already a child of P
\* or a child of another node, and 0 <= i <= P.children.length before the
\* call, P.getChildAt(i) returns c and c.parent is P.
AddChildAtPlacesChildAtIndex ==
    Succeeded("addChildAt") =>
        LET r == getChildAt(Snapshot, last.this, last.args.index)
        IN  /\ r.threw = "none"
            /\ r.ret = <<last.args.child>>
            /\ parent[last.args.child] = last.this

\* C4 (reparenting): if c is a child of A and B is a different node, a
\* successful B.addChildAt(c, i) makes A.children one shorter, B.children one
\* longer, and leaves c.parent equal to B.
ReparentingLengths ==
    (Succeeded("addChildAt") /\ pre.parent[last.args.child] \notin {null, last.this}) =>
        LET A == pre.parent[last.args.child]
            B == last.this
        IN  /\ Len(children[A]) = Len(pre.children[A]) - 1
            /\ Len(children[B]) = Len(pre.children[B]) + 1
            /\ parent[last.args.child] = B

\* A child moved between two parents that both had children before the call.
ReparentingWitness ==
    /\ Succeeded("addChildAt")
    /\ pre.parent[last.args.child] \notin {null, last.this}
    /\ IsChildOf(pre, last.args.child, pre.parent[last.args.child])
    /\ parent[last.args.child] = last.this
    /\ last.args.child # last.this

\* C5 (idempotence): when c already occupies index i of P.children,
\* P.addChildAt(c, i) returns c, leaves the children arrays, c's parent and
\* flags, P.sortDirty and the layer index as they were and emits no event.
AlreadyInPlace ==
    /\ Did("addChildAt")
    /\ last.args.index >= 0
    /\ last.args.index < Len(pre.children[last.this])
    /\ pre.children[last.this][last.args.index + 1] = last.args.child

AddChildAtIdempotent ==
    AlreadyInPlace =>
        /\ last.threw = "none"
        /\ last.ret = <<last.args.child>>
        /\ Snapshot = pre
        /\ events = <<>>

\* The no-op call is made on a child whose flags an update pass had cleared.
AddChildAtIdempotentWitness ==
    /\ AlreadyInPlace
    /\ ~pre.didChange[last.args.child]
    /\ pre.updateFlags[last.args.child] # AllFlags
    /\ last.threw = "none"

\* The arguments of the last removeChildren call, as the method reads them.
RcBegin == beginOrDefault(last.args.begin)
RcEnd == IF last.args.end = NoArg THEN Len(pre.children[last.this]) ELSE last.args.end[1]
RcLen == Len(pre.children[last.this])

\* The elements of s at the 0-based positions hi, hi-1, ..., lo.
Downward(s, hi, lo) == [k \in 1..(hi - lo + 1) |-> s[hi - k + 2]]

\* The elements of s at the 0-based positions below lo, then those from hi on.
Without(s, lo, hi) == SubSeq(s, 1, lo) \o SubSeq(s, hi + 1, Len(s))

\* C6 (range law), as stated: every P.removeChildren(b, e) with e > b that
\* does not fail removes exactly e - b elements, those at the original
\* indices b..e-1, and returns them from index e-1 down to b.
RangeLawAnyEnd ==
    (Succeeded("removeChildren") /\ RcEnd > RcBegin) =>
        /\ Len(children[last.this]) = RcLen - (RcEnd - RcBegin)
        /\ Len(last.ret) = RcEnd - RcBegin

\* C6 amended: the law holds for 0 <= b < e <= P.children.length; the
\* elements at b..e-1 and no others leave P.children and the returned list
\* holds them from original index e-1 down to b.
RangeLaw ==
    (Succeeded("removeChildren") /\ 0 <= RcBegin /\ RcBegin < RcEnd /\ RcEnd <= RcLen) =>
        /\ Len(last.ret) = RcEnd - RcBegin
        /\ last.ret = Downward(pre.children[last.this], RcEnd - 1, RcBegin)
        /\ children[last.this] = Without(pre.children[last.this], RcBegin, RcEnd)

\* Two or more children are removed from a middle or a leading range, with
\* an explicit end.
RangeLawWitness ==
    /\ Succeeded("removeChildren")
    /\ last.args.end # NoArg
    /\ 0 <= RcBegin /\ RcEnd <= RcLen
    /\ RcEnd - RcBegin >= 2
    /\ Len(last.ret) = RcEnd - RcBegin

\* C7: with the end index omitted, for P with n children and 0 <= b < n,
\* P.removeChildren(b) returns the children originally at n-1 down to b,
\* leaves P.children equal to its first b elements, and every returned node
\* has parent null.
RemoveTail ==
    (Did("removeChildren") /\ last.args.end = NoArg /\ 0 <= RcBegin /\ RcBegin < RcLen) =>
        /\ last.threw = "none"
        /\ last.ret = Downward(pre.children[last.this], RcLen - 1, RcBegin)
        /\ children[last.this] = SubSeq(pre.children[last.this], 1, RcBegin)
        /\ \A k \in 1..Len(last.ret) : parent[last.ret[k]] = null

\* removeChildren(1) on an array of at least two children.
RemoveTailWitness ==
    /\ Succeeded("removeChildren")
    /\ last.args.end = NoArg
    /\ last.args.begin # NoArg
    /\ RcBegin >= 1
    /\ RcLen > RcBegin
    /\ Len(children[last.this]) = RcBegin

Untouched == Snapshot = pre /\ events = <<>>

\* C8, as stated: removeChildren returns an empty list when e - b is 0 and
\* P.children is empty; in every other case with e - b <= 0, or with b beyond
\* the current length while children exist, it fails with a RangeError; in
\* both outcomes nothing changes and no event is emitted.
RangeValidationWithBounds ==
    Did("removeChildren") =>
        /\ (RcEnd - RcBegin = 0 /\ RcLen = 0) =>
              (last.threw = "none" /\ last.ret = <<>> /\ Untouched)
        /\ (~(RcEnd - RcBegin = 0 /\ RcLen = 0)
            /\ (RcEnd - RcBegin <= 0 \/ (RcBegin > RcLen /\ RcLen > 0))) =>
              (last.threw = "RangeError" /\ Untouched)

\* C8 amended: the RangeError is raised exactly for e - b <= 0 (other than
\* the empty no-op) and for b < 0; a positive range with b >= 0 is accepted
\* even when it reaches beyond the array.
RangeValidation ==
    Did("removeChildren") =>
        /\ (RcEnd - RcBegin = 0 /\ RcLen = 0) =>
              (last.threw = "none" /\ last.ret = <<>> /\ Untouched)
        /\ (~(RcEnd - RcBegin = 0 /\ RcLen = 0) /\ (RcEnd - RcBegin <= 0 \/ RcBegin < 0)) =>
              (last.threw = "RangeError" /\ Untouched)
        /\ (RcEnd - RcBegin > 0 /\ RcBegin >= 0) => last.threw = "none"

\* An empty range is rejected on an array that has children.
RangeValidationWitness ==
    /\ Did("removeChildren")
    /\ RcEnd - RcBegin = 0
    /\ RcLen > 0
    /\ last.threw = "RangeError"

\* C9 (validation precedes mutation): whenever removeChildren, getChildAt,
\* getChildIndex, setChildIndex, addChildAt, swapChildren or removeChildAt
\* fails, every children array, parent, dirty flag and the layer index are
\* as before the call and the call has emitted no event.
FailureLeavesSceneUntouched ==
    Failed => Untouched

\* swapChildren fails on its second argument although the first is a child.
FailureLeavesSceneUntouchedWitness ==
    /\ Did("swapChildren")
    /\ Failed
    /\ IsChildOf(pre, last.args.child, last.this)
    /\ ~IsChildOf(pre, last.args.child2, last.this)

\* s with the elements at the 0-based positions i and j exchanged.
Exchanged(s, i, j) ==
    [k \in 1..Len(s) |-> IF k = i + 1 THEN s[j + 1] ELSE IF k = j + 1 THEN s[i + 1] ELSE s[k]]

TwoChildren ==
    /\ last.args.child # last.args.child2
    /\ IsChildOf(pre, last.args.child, last.this)
    /\ IsChildOf(pre, last.args.child2, last.this)

\* C10 (swap law): for distinct children a, b of P, P.swapChildren(a, b)
\* exchanges their two positions and changes nothing else and emits nothing;
\* P.swapChildren(a, a) changes nothing; a second swapChildren(a, b)
\* restores the original array.
SwapLaw ==
    Did("swapChildren") =>
        /\ last.args.child = last.args.child2 => (last.threw = "none" /\ Untouched)
        /\ TwoChildren =>
              /\ last.threw = "none"
              /\ events = <<>>
              /\ children[last.this] =
                    Exchanged(pre.children[last.this],
                              IndexOf(pre.children[last.this], last.args.child),
                              IndexOf(pre.children[last.this], last.args.child2))
              /\ [Snapshot EXCEPT !.children[last.this] = pre.children[last.this]] = pre
              /\ swapChildren(Snapshot, last.this, last.args.child, last.args.child2).scene = pre

\* The first and the last of three children were swapped around the middle
\* one, which stayed where it was: neither a relocation of one child nor a
\* rotation gives this array.
SwapLawWitness ==
    /\ Did("swapChildren")
    /\ TwoChildren
    /\ Len(pre.children[last.this]) = 3
    /\ last.this \notin Elems(pre.children[last.this])
    /\ IndexOf(pre.children[last.this], last.args.child) = 0
    /\ IndexOf(pre.children[last.this], last.args.child2) = 2
    /\ children[last.this] = <<last.args.child2, pre.children[last.this][2], last.args.child>>
    /\ children[last.this] # SpliceIn(SpliceOut(pre.children[last.this], 0), 2, last.args.child)

\* The arguments of the last setChildIndex or addChildAt call.
ArgChild == last.args.child
ArgIndex == last.args.index

SetChildIndexValid ==
    /\ IsChildOf(pre, ArgChild, last.this)
    /\ 0 <= ArgIndex
    /\ ArgIndex < Len(pre.children[last.this])

\* C11 (setChildIndex relocation): for a child c of P and 0 <= i <
\* P.children.length, after P.setChildIndex(c, i) the child c is at position
\* i, P.children has the same length and the same nodes, and the other
\* children keep their relative order; for i outside [0, length) or c not a
\* child of P the call fails.
SetChildIndexRelocates ==
    Did("setChildIndex") =>
        /\ SetChildIndexValid =>
              /\ last.threw = "none"
              /\ Len(children[last.this]) = Len(pre.children[last.this])
              /\ children[last.this][ArgIndex + 1] = ArgChild
              /\ Elems(children[last.this]) = Elems(pre.children[last.this])
              /\ SpliceOut(children[last.this], ArgIndex) =
                    SpliceOut(pre.children[last.this],
                              IndexOf(pre.children[last.this], ArgChild))
        /\ ~SetChildIndexValid => (last.threw = "Error" /\ Untouched)

\* The first of three children was moved to the end: the two others moved up
\* in their old order, which trading places with the last child would not give.
SetChildIndexRelocatesWitness ==
    /\ Succeeded("setChildIndex")
    /\ SetChildIndexValid
    /\ Len(pre.children[last.this]) = 3
    /\ last.this \notin Elems(pre.children[last.this])
    /\ IndexOf(pre.children[last.this], ArgChild) = 0
    /\ ArgIndex = 2
    /\ children[last.this] =
          <<pre.children[last.this][2], pre.children[last.this][3], ArgChild>>
    /\ children[last.this] # Exchanged(pre.children[last.this], 0, 2)

\* C12 (layer-index synchronisation): for a node P with a layer index
\* attached, after any sequence of addChildAt, setChildIndex, removeChildren
\* and swapChildren calls on P and on other nodes, a node is a member of P's
\* layer index exactly when it is an element of P.children.
LayerIndexMirrorsChildren ==
    \A P \in Node : hasLayerGroup[P] => layerGroup[P] = Elems(children[P])

\* Invariants I1 and I2 of a scene S (I3, dense indices, is what a sequence is).
SingleParentIn(S) ==
    \A n \in Node : Cardinality({P \in Node : IsChildOf(S, n, P)}) <= 1
ParentIffChildIn(S) ==
    \A n \in Node, P \in Node : (S.parent[n] = P) <=> IsChildOf(S, n, P)

\* The child is in the target's array, points back to it and is nowhere else.
AddedIn(S, c, P) ==
    /\ IsChildOf(S, c, P)
    /\ S.parent[c] = P
    /\ \A Q \in Node : IsChildOf(S, c, Q) => Q = P

\* The whole batch is out of the parent's array and detached; whoever still
\* points to the parent is still in its array.
RemovedIn(S, batch, P) ==
    /\ \A k \in 1..Len(batch) : ~IsChildOf(S, batch[k], P) /\ S.parent[batch[k]] = null
    /\ \A n \in Node : S.parent[n] = P => IsChildOf(S, n, P)

\* C13 (commit before notify): at the instant of every event emitted by
\* addChildAt or removeChildren the structural change of the call is complete
\* and I1-I3 hold: for 'childAdded'/'added' the child is in the target's
\* children, its parent is the target and it is in no other array; for
\* 'childRemoved'/'removed' every node of the batch is out of the parent's
\* children with parent null, and every node whose parent is still that parent
\* is still in its children.
CommitBeforeNotify ==
    /\ Len(seen) = Len(events)
    /\ \A k \in 1..Len(events) :
          LET e == events[k]
              S == seen[k]
          IN  /\ SingleParentIn(S)
              /\ ParentIffChildIn(S)
              /\ e.type = "childAdded" => AddedIn(S, e.args[1], e.on)
              /\ e.type = "added" => AddedIn(S, e.on, e.args[1])
              /\ e.type \in {"childRemoved", "removed"} => RemovedIn(S, last.ret, last.this)

\* The events of a move from another parent were emitted.
CommitBeforeNotifyWitness ==
    /\ Succeeded("addChildAt")
    /\ pre.parent[ArgChild] \notin {null, last.this}
    /\ Len(events) = 2
    /\ seen[1].parent[ArgChild] = last.this
    /\ ~IsChildOf(seen[1], ArgChild, pre.parent[ArgChild])

\* What the insertion path leaves on the child and emits.
FullInsertion ==
    /\ didChange[ArgChild]
    /\ ~didViewUpdate[ArgChild]
    /\ updateFlags[ArgChild] = AllFlags
    /\ hasLayerGroup[last.this] => ArgChild \in layerGroup[last.this]
    /\ events = <<[type |-> "childAdded", on |-> last.this,
                   args |-> <<ArgChild, last.this, ArgIndex>>],
                  [type |-> "added", on |-> ArgChild, args |-> <<last.this>>]>>

\* C14, as stated: every successful P.setChildIndex(c, i), whatever the
\* current position of c, sets c.didChange, clears c.didViewUpdate, sets
\* c.updateFlags to all bits, adds c to P's layer index when one is attached
\* and emits 'childAdded' on P followed by 'added' on c.
SetChildIndexAlwaysFullPath ==
    Succeeded("setChildIndex") => FullInsertion

\* C14 amended: the full insertion path is taken when c is at a position
\* other than i; when c already is at position i the call changes nothing
\* and emits nothing.
SetChildIndexFullPath ==
    Succeeded("setChildIndex") =>
        IF IndexOf(pre.children[last.this], ArgChild) = ArgIndex
        THEN Untouched
        ELSE FullInsertion

\* A child whose flags an update pass had cleared was moved to another
\* position under the node that owns a layer index.
SetChildIndexFullPathWitness ==
    /\ Succeeded("setChildIndex")
    /\ IndexOf(pre.children[last.this], ArgChild) # ArgIndex
    /\ hasLayerGroup[last.this]
    /\ ~pre.didChange[ArgChild]
    /\ pre.didViewUpdate[ArgChild]
    /\ pre.updateFlags[ArgChild] = 0
    /\ didChange[ArgChild]
    /\ ~didViewUpdate[ArgChild]
    /\ updateFlags[ArgChild] = AllFlags
    /\ Len(events) = 2

\* C15 (event sequence of removeChildren): a successful P.removeChildren(b, e)
\* returning r emits, for k = 0 .. len(r)-1 in that order, 'childRemoved' on P
\* with (r[k], P, k) immediately followed by 'removed' on r[k] with (P); the
\* position is the index in the returned batch; nothing else is emitted and
\* nothing is emitted before the splice.
RemoveChildrenEvents ==
    Succeeded("removeChildren") =>
        /\ Len(events) = 2 * Len(last.ret)
        /\ \A k \in 1..Len(last.ret) :
              /\ events[2 * k - 1] = [type |-> "childRemoved", on |-> last.this,
                                      args |-> <<last.ret[k], last.this, k - 1>>]
              /\ events[2 * k] = [type |-> "removed", on |-> last.ret[k],
                                  args |-> <<last.this>>]
        /\ \A j \in 1..Len(events) : seen[j].children = children

\* Two children were removed, so the batch position of the first returned
\* node differs from its original index.
RemoveChildrenEventsWitness ==
    /\ Succeeded("removeChildren")
    /\ Len(last.ret) >= 2
    /\ IndexOf(pre.children[last.this], last.ret[1]) # 0
    /\ events[1].args[3] = 0

TreeChanged == children # pre.children \/ parent # pre.parent

\* C16 (event sequence of addChildAt): every P.addChildAt(c, i) that changes
\* the tree emits exactly 'childAdded' on P with (c, P, i) and then 'added'
\* on c with (P); it never emits 'removed' or 'childRemoved', also when c is
\* taken out of a different parent.
AddChildAtEvents ==
    Did("addChildAt") =>
        /\ \A k \in 1..Len(events) : events[k].type \notin {"removed", "childRemoved"}
        /\ TreeChanged =>
              events = <<[type |-> "childAdded", on |-> last.this,
                          args |-> <<ArgChild, last.this, ArgIndex>>],
                         [type |-> "added", on |-> ArgChild, args |-> <<last.this>>]>>

\* The child was taken out of a different parent that held it.
AddChildAtEventsWitness ==
    /\ Did("addChildAt")
    /\ TreeChanged
    /\ pre.parent[ArgChild] \notin {null, last.this}
    /\ Len(children[pre.parent[ArgChild]]) < Len(pre.children[pre.parent[ArgChild]])
    /\ events # <<>>

\* C17: the index carried by 'childAdded' is the child's position: whenever
\* addChildAt, directly or through setChildIndex, emits 'childAdded' with
\* (c, P, i), P.children[i] is c at that instant.
ChildAddedIndexIsPosition ==
    \A k \in 1..Len(events) :
        events[k].type = "childAdded" =>
            LET c == events[k].args[1]
                P == events[k].args[2]
                i == events[k].args[3]
            IN  /\ i < Len(seen[k].children[P])
                /\ seen[k].children[P][i + 1] = c

NoDuplicates(s) == \A i \in 1..Len(s), j \in 1..Len(s) : s[i] = s[j] => i = j

\* C18 (lookup round trip, no duplicates): in every reachable state no node
\* occurs twice in one children array, P.getChildIndex(P.getChildAt(i)) = i
\* for every valid i, P.getChildAt(P.getChildIndex(c)) = c for every child c
\* of P, and both lookups change no state.
LookupRoundTrip ==
    /\ \A P \in Node :
          /\ NoDuplicates(children[P])
          /\ \A i \in 0..(Len(children[P]) - 1) :
                LET r == getChildAt(Snapshot, P, i)
                    q == getChildIndex(Snapshot, P, r.ret[1])
                IN  /\ r.threw = "none" /\ r.scene = Snapshot /\ r.events = <<>>
                    /\ q.threw = "none" /\ q.scene = Snapshot /\ q.events = <<>>
                    /\ q.ret = <<i>>
          /\ \A c \in Elems(children[P]) :
                LET q == getChildIndex(Snapshot, P, c)
                IN  /\ q.threw = "none"
                    /\ getChildAt(Snapshot, P, q.ret[1]).ret = <<c>>
    /\ (Did("getChildAt") \/ Did("getChildIndex")) => Untouched

\* getChildIndex found a child behind another one.
LookupRoundTripWitness ==
    /\ Succeeded("getChildIndex")
    /\ last.ret[1] >= 1
    /\ children[last.this][last.ret[1] + 1] = ArgChild

\* The node reached from n by following parent k times (null once the chain ends).
RECURSIVE Up(_, _)
Up(n, k) ==
    IF k = 0 THEN n
    ELSE LET m == Up(n, k - 1) IN IF m = null THEN null ELSE parent[m]

\* C19 (the structure stays a tree): after any sequence of addChildAt and
\* setChildIndex calls with arbitrary node arguments, no node is reachable
\* from itself by following parent references.
NoNodeIsItsOwnAncestor ==
    \A n \in Node : \A k \in 1..NumNodes : Up(n, k) # n

\* s without the element c.
Others(s, c) == SelectSeq(s, LAMBDA x : x # c)

\* C20 (frame of addChildAt): a successful P.addChildAt(c, i) changes only
\* P.children, the children of c's previous parent, c's parent and flags,
\* P.sortDirty and P's layer index; every other node keeps its parent, flags
\* and membership, and the other children of P and of the previous parent
\* keep their relative order.
AddChildAtFrame ==
    Succeeded("addChildAt") =>
        LET c == ArgChild
            P == last.this
            A == pre.parent[ArgChild]
        IN  /\ \A n \in Node \ {c} :
                  /\ parent[n] = pre.parent[n]
                  /\ didChange[n] = pre.didChange[n]
                  /\ didViewUpdate[n] = pre.didViewUpdate[n]
                  /\ updateFlags[n] = pre.updateFlags[n]
            /\ \A q \in Node \ {P, A} : children[q] = pre.children[q]
            /\ \A q \in Node \ {P} :
                  /\ sortDirty[q] = pre.sortDirty[q]
                  /\ layerGroup[q] = pre.layerGroup[q]
            /\ \A q \in Node : Others(children[q], c) = Others(pre.children[q], c)

\* The child moved between two parents, leaving a sibling behind or joining
\* a parent that already had a child.
AddChildAtFrameWitness ==
    /\ Succeeded("addChildAt")
    /\ pre.parent[ArgChild] \notin {null, last.this}
    /\ parent[ArgChild] = last.this
    /\ \/ Len(children[pre.parent[ArgChild]]) >= 1
       \/ Len(children[last.this]) >= 2

====
